---- MODULE Spec2Model ----
(***************************************************************************)
(* Model of insurance_analysis/main.py: the record parser                  *)
(* (preprocess_insurance_data, is_valid_date), the rejection classifier    *)
(* (complex_rejection_classifier, add_rejection_class), the city           *)
(* aggregator and the scoring engine (analyze_city_performance), driven    *)
(* in the order main() calls them.                                         *)
(*                                                                         *)
(* Text is a sequence of one-character strings, so that strip, split,      *)
(* upper, lower and substring search are computed as Python computes       *)
(* them.  A float is a tagged value: a finite rational n/d, nan, inf or    *)
(* -inf.  Finite arithmetic is exact (IEEE rounding is not modelled);      *)
(* the special values follow IEEE rules.                                   *)
(***************************************************************************)
EXTENDS Integers, Sequences, FiniteSets, TLC

\* ------------------------------------------------------------------ bounds
\* Largest number of data lines (lines after the header) in an input.
MaxLines == 2

\* ------------------------------------------------------------- characters
\* str.strip() with no argument removes whitespace.
Whitespace == {" ", "\t"}

Digits == <<"0", "1", "2", "3", "4", "5", "6", "7", "8", "9">>

LowerLetters ==
    <<"a", "b", "c", "d", "e", "f", "g", "h", "i", "j", "k", "l", "m",
      "n", "o", "p", "q", "r", "s", "t", "u", "v", "w", "x", "y", "z">>

UpperLetters ==
    <<"A", "B", "C", "D", "E", "F", "G", "H", "I", "J", "K", "L", "M",
      "N", "O", "P", "Q", "R", "S", "T", "U", "V", "W", "X", "Y", "Z">>

IsDigit(c) == \E k \in 1..10 : Digits[k] = c

DigitVal(c) == (CHOOSE k \in 1..10 : Digits[k] = c) - 1

\* str.upper() on one character.
UpperChar(c) ==
    IF \E k \in 1..26 : LowerLetters[k] = c
    THEN UpperLetters[CHOOSE k \in 1..26 : LowerLetters[k] = c]
    ELSE c

\* str.lower() on one character.
LowerChar(c) ==
    IF \E k \in 1..26 : UpperLetters[k] = c
    THEN LowerLetters[CHOOSE k \in 1..26 : UpperLetters[k] = c]
    ELSE c

\* ---------------------------------------------------------------- strings
Upper(s) == [k \in 1..Len(s) |-> UpperChar(s[k])]

Lower(s) == [k \in 1..Len(s) |-> LowerChar(s[k])]

\* str.strip(): drop leading and trailing whitespace.
Strip(s) ==
    LET nonws == {k \in 1..Len(s) : s[k] \notin Whitespace}
    IN  IF nonws = {} THEN <<>>
        ELSE LET lo == CHOOSE k \in nonws : \A j \in nonws : k <= j
                 hi == CHOOSE k \in nonws : \A j \in nonws : k >= j
             IN  SubSeq(s, lo, hi)

\* str.split(sep) for a one-character separator: always at least one part.
RECURSIVE Split(_, _)
Split(s, sep) ==
    LET hits == {k \in 1..Len(s) : s[k] = sep}
    IN  IF hits = {} THEN <<s>>
        ELSE LET k == CHOOSE h \in hits : \A j \in hits : h <= j
             IN  <<SubSeq(s, 1, k - 1)>> \o Split(SubSeq(s, k + 1, Len(s)), sep)

\* sep.join(parts)
RECURSIVE Join(_, _)
Join(parts, sep) ==
    IF Len(parts) = 0 THEN <<>>
    ELSE IF Len(parts) = 1 THEN parts[1]
    ELSE parts[1] \o <<sep>> \o Join(Tail(parts), sep)

\* Python's `sub in s` for strings.
Contains(s, sub) ==
    \E k \in 0..(Len(s) - Len(sub)) : SubSeq(s, k + 1, k + Len(sub)) = sub

\* ---------------------------------------------------------------- numbers
RECURSIVE Gcd(_, _)
Gcd(a, b) == IF b = 0 THEN a ELSE Gcd(b, a % b)

Abs(x) == IF x < 0 THEN -x ELSE x

\* A run of digits in which single underscores may separate digits, as
\* int() and float() accept it.
DigitRun(s) ==
    /\ Len(s) > 0
    /\ IsDigit(s[1])
    /\ IsDigit(s[Len(s)])
    /\ \A k \in 1..Len(s) : IsDigit(s[k]) \/ s[k] = "_"
    /\ \A k \in 1..(Len(s) - 1) : ~(s[k] = "_" /\ s[k + 1] = "_")

RECURSIVE DigitRunVal(_)
DigitRunVal(s) ==
    IF Len(s) = 0 THEN 0
    ELSE IF s[Len(s)] = "_" THEN DigitRunVal(SubSeq(s, 1, Len(s) - 1))
    ELSE 10 * DigitRunVal(SubSeq(s, 1, Len(s) - 1)) + DigitVal(s[Len(s)])

NumDigits(s) == Cardinality({k \in 1..Len(s) : IsDigit(s[k])})

RECURSIVE Pow10(_)
Pow10(k) == IF k = 0 THEN 1 ELSE 10 * Pow10(k - 1)

\* A leading sign, if any, and the rest of the text.
SignOf(s) == IF Len(s) > 0 /\ s[1] = "-" THEN -1 ELSE 1

Unsigned(s) == IF Len(s) > 0 /\ s[1] \in {"+", "-"} THEN Tail(s) ELSE s

\* int(text): [ok |-> FALSE] stands for ValueError.
ParseInt(text) ==
    LET body == Unsigned(Strip(text))
    IN  IF DigitRun(body)
        THEN [ok |-> TRUE, v |-> SignOf(Strip(text)) * DigitRunVal(body)]
        ELSE [ok |-> FALSE, v |-> 0]

\* ----------------------------------------------------------------- floats
Fin(n, d) ==
    LET g == Gcd(Abs(n), d)
    IN  [t |-> "float", k |-> "fin", n |-> n \div g, d |-> d \div g]

NaN == [t |-> "float", k |-> "nan", n |-> 0, d |-> 1]

Inf(sign) == [t |-> "float", k |-> IF sign < 0 THEN "-inf" ELSE "inf", n |-> 0, d |-> 1]

Zero == Fin(0, 1)

IsFin(x) == x.k = "fin"

IsInf(x) == x.k \in {"inf", "-inf"}

\* Sign of a non-nan float: -1, 0 or 1.
FSign(x) ==
    IF x.k = "inf" THEN 1
    ELSE IF x.k = "-inf" THEN -1
    ELSE IF x.n > 0 THEN 1 ELSE IF x.n < 0 THEN -1 ELSE 0

FNeg(x) ==
    IF x.k = "nan" THEN NaN
    ELSE IF IsInf(x) THEN Inf(-FSign(x))
    ELSE Fin(-x.n, x.d)

FAdd(x, y) ==
    IF x.k = "nan" \/ y.k = "nan" THEN NaN
    ELSE IF IsInf(x) /\ IsInf(y) THEN (IF x.k = y.k THEN x ELSE NaN)
    ELSE IF IsInf(x) THEN x
    ELSE IF IsInf(y) THEN y
    ELSE Fin(x.n * y.d + y.n * x.d, x.d * y.d)

FSub(x, y) == FAdd(x, FNeg(y))

FMul(x, y) ==
    IF x.k = "nan" \/ y.k = "nan" THEN NaN
    ELSE IF IsInf(x) \/ IsInf(y)
         THEN (IF FSign(x) * FSign(y) = 0 THEN NaN ELSE Inf(FSign(x) * FSign(y)))
    ELSE Fin(x.n * y.n, x.d * y.d)

\* x / y for y # 0 (the callers guard the division).
FDiv(x, y) ==
    IF x.k = "nan" \/ y.k = "nan" THEN NaN
    ELSE IF IsInf(x) /\ IsInf(y) THEN NaN
    ELSE IF IsInf(x) THEN Inf(FSign(x) * FSign(y))
    ELSE IF IsInf(y) THEN Zero
    ELSE Fin(FSign(y) * x.n * y.d, x.d * Abs(y.n))

\* x > y; every comparison with nan is False.
FGt(x, y) ==
    IF x.k = "nan" \/ y.k = "nan" THEN FALSE
    ELSE IF x.k = "inf" THEN y.k # "inf"
    ELSE IF x.k = "-inf" THEN FALSE
    ELSE IF y.k = "inf" THEN FALSE
    ELSE IF y.k = "-inf" THEN TRUE
    ELSE LET l == (x.d * y.d) \div Gcd(x.d, y.d)
         IN  x.n * (l \div x.d) > y.n * (l \div y.d)

\* x == y on floats; nan is equal to nothing, itself included.
FEq(x, y) == x.k # "nan" /\ y.k # "nan" /\ x = y

FromInt(c) == Fin(c, 1)

INF_NAME == <<"i", "n", "f">>
INFINITY_NAME == <<"i", "n", "f", "i", "n", "i", "t", "y">>
NAN_NAME == <<"n", "a", "n">>

\* float(text): [ok |-> FALSE] stands for ValueError.  Accepted: optional
\* surrounding whitespace, an optional sign, then inf, infinity or nan in
\* any case, or digits with an optional fraction.  Exponent notation
\* (1e3) is not modelled; no input of the model uses it.
ParseFloat(text) ==
    LET s     == Strip(text)
        body  == Unsigned(s)
        sign  == SignOf(s)
        parts == Split(body, ".")
    IN  IF Lower(body) \in {INF_NAME, INFINITY_NAME}
        THEN [ok |-> TRUE, v |-> Inf(sign)]
        ELSE IF Lower(body) = NAN_NAME
        THEN [ok |-> TRUE, v |-> NaN]
        ELSE IF Len(parts) = 1 /\ DigitRun(parts[1])
        THEN [ok |-> TRUE, v |-> Fin(sign * DigitRunVal(parts[1]), 1)]
        ELSE IF /\ Len(parts) = 2
                /\ (Len(parts[1]) > 0 \/ Len(parts[2]) > 0)
                /\ (Len(parts[1]) = 0 \/ DigitRun(parts[1]))
                /\ (Len(parts[2]) = 0 \/ DigitRun(parts[2]))
        THEN [ok |-> TRUE,
              v  |-> Fin(sign * (DigitRunVal(parts[1]) * Pow10(NumDigits(parts[2]))
                                 + DigitRunVal(parts[2])),
                         Pow10(NumDigits(parts[2])))]
        ELSE [ok |-> FALSE, v |-> Zero]

\* ----------------------------------------------------------- column names
CLAIM_ID ==
    <<"C", "L", "A", "I", "M", "_", "I", "D">>

CLAIM_DATE ==
    <<"C", "L", "A", "I", "M", "_", "D", "A", "T", "E">>

CUSTOMER_ID ==
    <<"C", "U", "S", "T", "O", "M", "E", "R", "_", "I", "D">>

CLAIM_AMOUNT ==
    <<"C", "L", "A", "I", "M", "_", "A", "M", "O", "U", "N", "T">>

PREMIUM_COLLECTED ==
    <<"P", "R", "E", "M", "I", "U", "M", "_", "C", "O", "L", "L", "E", "C", "T", "E", "D">>

PAID_AMOUNT ==
    <<"P", "A", "I", "D", "_", "A", "M", "O", "U", "N", "T">>

CITY ==
    <<"C", "I", "T", "Y">>

REJECTION_REMARKS ==
    <<"R", "E", "J", "E", "C", "T", "I", "O", "N", "_", "R", "E", "M", "A", "R", "K", "S">>

REJECTION_CLASS ==
    <<"R", "E", "J", "E", "C", "T", "I", "O", "N", "_", "C", "L", "A", "S", "S">>

\* The mandatory header of the input.
HEADER ==
    <<CLAIM_ID, CLAIM_DATE, CUSTOMER_ID, CLAIM_AMOUNT, PREMIUM_COLLECTED,
      PAID_AMOUNT, CITY, REJECTION_REMARKS>>

MonetaryColumns == {CLAIM_AMOUNT, PREMIUM_COLLECTED, PAID_AMOUNT}

\* The columns the if/elif chain of the parser handles.
KnownColumns ==
    {CLAIM_ID, CLAIM_DATE, CUSTOMER_ID, CITY, REJECTION_REMARKS} \cup MonetaryColumns

\* ----------------------------------------------------------------- cities
PUNE ==
    <<"P", "U", "N", "E">>

KOLKATA ==
    <<"K", "O", "L", "K", "A", "T", "A">>

RANCHI ==
    <<"R", "A", "N", "C", "H", "I">>

GUWAHATI ==
    <<"G", "U", "W", "A", "H", "A", "T", "I">>

\* The list the city_metrics dict is built from; a dict iterates in
\* insertion order.
CityOrder == <<PUNE, KOLKATA, RANCHI, GUWAHATI>>

Cities == {CityOrder[k] : k \in 1..Len(CityOrder)}

\* ------------------------------------------------------- rejection classes
PolicyExpired == "Policy Expired"

FakeDocument == "Fake Document"

NotCovered == "Not Covered"

Other == "Other"

NoRemark == "No Remark"

KW_EXPIRED ==
    <<"e", "x", "p", "i", "r", "e", "d">>

KW_POLICY_EXPIRED ==
    <<"p", "o", "l", "i", "c", "y", "_", "e", "x", "p", "i", "r", "e", "d">>

KW_FAKE ==
    <<"f", "a", "k", "e">>

KW_FAKE_DOCUMENT ==
    <<"f", "a", "k", "e", "_", "d", "o", "c", "u", "m", "e", "n", "t">>

KW_COVERED ==
    <<"c", "o", "v", "e", "r", "e", "d">>

KW_NOT_COVERED ==
    <<"n", "o", "t", "_", "c", "o", "v", "e", "r", "e", "d">>

\* ----------------------------------------------------------------- values
\* The values a cleaned row holds: a str, None, or a float (see Fin, NaN,
\* Inf); REJECTION_CLASS holds one of the five class labels.
Str(s) == [t |-> "str", s |-> s]

None == [t |-> "None"]

Class(c) == [t |-> "class", c |-> c]

\* Python truthiness of a row value: None and '' are falsy.
Truthy(v) == v.t = "str" /\ Len(v.s) > 0

\* ------------------------------------------------------------ is_valid_date
is_valid_date(date_str) ==
    LET parts == Split(date_str, "-")
    IN  IF Len(parts) # 3 THEN FALSE
        ELSE LET year  == ParseInt(parts[1])
                 month == ParseInt(parts[2])
                 day   == ParseInt(parts[3])
             IN  /\ year.ok /\ month.ok /\ day.ok
                 /\ 1 <= month.v /\ month.v <= 12
                 /\ 1 <= day.v /\ day.v <= 31
                 /\ year.v >= 2025

\* ------------------------------------------------ preprocess_insurance_data
\* One branch of the if/elif chain over the column name.
CleanFieldNoUpper(header, value) ==
    IF header = CLAIM_ID
    THEN (IF Strip(value) # <<>> THEN Str(value) ELSE None)
    ELSE IF header = CLAIM_DATE
    THEN (IF Strip(value) # <<>> /\ is_valid_date(value) THEN Str(value) ELSE None)
    ELSE IF header = CUSTOMER_ID
    THEN (IF Strip(value) # <<>> THEN Str(value) ELSE None)
    ELSE IF header \in MonetaryColumns
    THEN (IF Strip(value) # <<>>
          THEN (IF ParseFloat(value).ok THEN ParseFloat(value).v ELSE Zero)
          ELSE Zero)
    ELSE IF header = CITY
    THEN (IF Strip(value) # <<>> THEN Str(Strip(value)) ELSE None)
    ELSE (IF Strip(value) # <<>> THEN Str(Strip(value)) ELSE Str(<<>>))

CleanField(header, value) ==
    IF header = CLAIM_ID
    THEN (IF Strip(value) # <<>> THEN Str(value) ELSE None)
    ELSE IF header = CLAIM_DATE
    THEN (IF Strip(value) # <<>> /\ is_valid_date(value) THEN Str(value) ELSE None)
    ELSE IF header = CUSTOMER_ID
    THEN (IF Strip(value) # <<>> THEN Str(value) ELSE None)
    ELSE IF header \in MonetaryColumns
    THEN (IF Strip(value) # <<>>
          THEN (IF ParseFloat(value).ok THEN ParseFloat(value).v ELSE Zero)
          ELSE Zero)
    ELSE IF header = CITY
    THEN (IF Strip(value) # <<>> THEN Str(Upper(Strip(value))) ELSE None)
    ELSE (IF Strip(value) # <<>> THEN Str(Strip(value)) ELSE Str(<<>>))

Min(a, b) == IF a < b THEN a ELSE b

\* The loop over zip(headers, row): a dict keyed by the handled column
\* names; zip stops at the shorter sequence and a repeated name keeps the
\* last value.
CleanRow(headers, row) ==
    LET n    == Min(Len(headers), Len(row))
        keys == {headers[j] : j \in 1..n} \cap KnownColumns
        last(h) == CHOOSE j \in 1..n : headers[j] = h /\ \A m \in 1..n : headers[m] = h => m <= j
    IN  [h \in keys |-> CleanField(h, row[last(h)])]

\* if len(row) != len(headers): continue
WellFormedAtLeast(row, headers) == Len(row) >= Len(headers)

WellFormed(row, headers) == Len(row) = Len(headers)

\* if cleaned_row['CLAIM_ID'] and cleaned_row['CUSTOMER_ID']
AdmitClaimOnly(cleaned_row) == Truthy(cleaned_row[CLAIM_ID])

Admit(cleaned_row) == Truthy(cleaned_row[CLAIM_ID]) /\ Truthy(cleaned_row[CUSTOMER_ID])

RowOf(line) == Split(Strip(line), ",")

HeadersOf(all_lines) == Split(Strip(all_lines[1]), ",")

\* One iteration of `for line in lines[1:]`: TRUE iff the line appends a
\* record.
Appends(headers, line) ==
    /\ WellFormed(RowOf(line), headers)
    /\ Admit(CleanRow(headers, RowOf(line)))

\* The whole function on a list of lines.
RECURSIVE CleanLines(_, _)
CleanLines(headers, data_lines) ==
    IF Len(data_lines) = 0 THEN <<>>
    ELSE (IF Appends(headers, data_lines[1])
          THEN <<CleanRow(headers, RowOf(data_lines[1]))>>
          ELSE <<>>) \o CleanLines(headers, Tail(data_lines))

preprocess_insurance_data(all_lines) == CleanLines(HeadersOf(all_lines), Tail(all_lines))

\* ---------------------------------------------- complex_rejection_classifier
FakeFirstClassifier(remark) ==
    LET r == Lower(remark)
    IN  IF Contains(r, KW_FAKE) \/ Contains(r, KW_FAKE_DOCUMENT) THEN FakeDocument
        ELSE IF Contains(r, KW_EXPIRED) \/ Contains(r, KW_POLICY_EXPIRED) THEN PolicyExpired
        ELSE IF Contains(r, KW_COVERED) \/ Contains(r, KW_NOT_COVERED) THEN NotCovered
        ELSE Other

\* Called on the str of REJECTION_REMARKS only, so the isinstance guard
\* never fires.
complex_rejection_classifier(remark) ==
    LET r == Lower(remark)
    IN  IF Contains(r, KW_EXPIRED) \/ Contains(r, KW_POLICY_EXPIRED) THEN PolicyExpired
        ELSE IF Contains(r, KW_FAKE) \/ Contains(r, KW_FAKE_DOCUMENT) THEN FakeDocument
        ELSE IF Contains(r, KW_COVERED) \/ Contains(r, KW_NOT_COVERED) THEN NotCovered
        ELSE Other

\* ------------------------------------------------------ add_rejection_class
WithKey(row, key, value) ==
    [h \in DOMAIN row \cup {key} |-> IF h = key THEN value ELSE row[h]]

\* The body of the loop: row['REJECTION_CLASS'] = ... if remark else 'No Remark'
ClassifyOnlyRemarked(row) ==
    IF Truthy(row[REJECTION_REMARKS])
    THEN WithKey(row, REJECTION_CLASS,
                 Class(complex_rejection_classifier(row[REJECTION_REMARKS].s)))
    ELSE row

ClassifyRow(row) ==
    WithKey(row, REJECTION_CLASS,
            IF Truthy(row[REJECTION_REMARKS])
            THEN Class(complex_rejection_classifier(row[REJECTION_REMARKS].s))
            ELSE Class(NoRemark))

\* ------------------------------------------------- analyze_city_performance
ZeroMetrics ==
    [claim_count |-> 0, total_claim_amount |-> Zero, total_paid_amount |-> Zero,
     total_premium |-> Zero, rejected_count |-> 0, loss_ratio |-> Zero]

InitialCityMetrics == [city \in Cities |-> ZeroMetrics]

\* `city not in city_metrics` is False exactly for a str naming a key.
InMetrics(metrics, city) == city.t = "str" /\ city.s \in DOMAIN metrics

AccumulateCountUnrejected(m, row) ==
    [m EXCEPT !.claim_count = IF Truthy(row[REJECTION_REMARKS]) THEN @ ELSE @ + 1,
              !.total_claim_amount = FAdd(@, row[CLAIM_AMOUNT]),
              !.total_paid_amount = FAdd(@, row[PAID_AMOUNT]),
              !.total_premium = FAdd(@, row[PREMIUM_COLLECTED]),
              !.rejected_count = IF Truthy(row[REJECTION_REMARKS]) THEN @ + 1 ELSE @]

Accumulate(m, row) ==
    [m EXCEPT !.claim_count = @ + 1,
              !.total_claim_amount = FAdd(@, row[CLAIM_AMOUNT]),
              !.total_paid_amount = FAdd(@, row[PAID_AMOUNT]),
              !.total_premium = FAdd(@, row[PREMIUM_COLLECTED]),
              !.rejected_count = IF Truthy(row[REJECTION_REMARKS]) THEN @ + 1 ELSE @]

AggregateRowNewCity(metrics, row) ==
    IF row[CITY].t # "str" THEN metrics
    ELSE [city \in DOMAIN metrics \cup {row[CITY].s} |->
            IF city = row[CITY].s
            THEN Accumulate(IF city \in DOMAIN metrics THEN metrics[city] ELSE ZeroMetrics, row)
            ELSE metrics[city]]

\* One iteration of `for row in data`.
AggregateRow(metrics, row) ==
    IF ~InMetrics(metrics, row[CITY]) THEN metrics
    ELSE [metrics EXCEPT ![row[CITY].s] = Accumulate(@, row)]

\* The loop that derives loss_ratio and rejection_rate of every city.
FinalizeCity(m) ==
    [claim_count |-> m.claim_count,
     total_claim_amount |-> m.total_claim_amount,
     total_paid_amount |-> m.total_paid_amount,
     total_premium |-> m.total_premium,
     rejected_count |-> m.rejected_count,
     loss_ratio |-> IF FGt(m.total_premium, Zero)
                    THEN FDiv(m.total_paid_amount, m.total_premium) ELSE Zero,
     rejection_rate |-> IF m.claim_count > 0
                        THEN Fin(m.rejected_count, m.claim_count) ELSE Zero]

FinalizeMetrics(metrics) == [city \in DOMAIN metrics |-> FinalizeCity(metrics[city])]

\* score = (loss_ratio * 0.5) + (rejection_rate * 0.3) - (claim_count / 100 * 0.2)
ScoreOf(m) ==
    FSub(FAdd(FMul(m.loss_ratio, Fin(1, 2)), FMul(m.rejection_rate, Fin(3, 10))),
         FMul(Fin(m.claim_count, 100), Fin(2, 10)))

ScoresOf(metrics) == [city \in DOMAIN metrics |-> ScoreOf(metrics[city])]

\* max(scores, key=scores.get): the keys are visited in insertion order
\* and a later key replaces the current best only if its score is greater.
RECURSIVE MaxFrom(_, _, _)
MaxFrom(sc, k, best) ==
    IF k > Len(CityOrder) THEN best
    ELSE MaxFrom(sc, k + 1, IF FGt(sc[CityOrder[k]], sc[best]) THEN CityOrder[k] ELSE best)

Recommend(sc) == MaxFrom(sc, 2, CityOrder[1])

\* ------------------------------------------------------------ input texts
\* The field texts the inputs are built from.
EMPTY ==
    <<>>

SPACE ==
    <<" ">>

ID_C1 ==
    <<"C", "1">>

ID_PADDED ==
    <<" ", "C", "2", " ">>

CUST_U1 ==
    <<"U", "1">>

DATE_OK ==
    <<"2", "0", "2", "5", "-", "0", "4", "-", "0", "1">>

DATE_SHORT ==
    <<"2", "0", "2", "5", "-", "4", "-", "1">>

DATE_OLD ==
    <<"2", "0", "2", "4", "-", "0", "4", "-", "0", "1">>

DATE_FEB30 ==
    <<"2", "0", "2", "5", "-", "0", "2", "-", "3", "0">>

DATE_MONTH13 ==
    <<"2", "0", "2", "5", "-", "1", "3", "-", "0", "1">>

DATE_SLASH ==
    <<"2", "0", "2", "5", "/", "0", "4", "/", "0", "1">>

AMT_0 ==
    <<"0">>

AMT_1 ==
    <<"1">>

AMT_2 ==
    <<"2">>

AMT_HALF ==
    <<"0", ".", "5">>

AMT_PADDED ==
    <<" ", "1", ".", "5", " ">>

AMT_TEXT ==
    <<"a", "b", "c">>

AMT_NAN ==
    <<"n", "a", "n">>

AMT_INF ==
    <<"i", "n", "f">>

CITY_LOWER_PUNE ==
    <<" ", "p", "u", "n", "e", " ">>

CITY_DELHI ==
    <<"D", "E", "L", "H", "I">>

REM_EXPIRED ==
    <<"P", "o", "l", "i", "c", "y", "_", "e", "x", "p", "i", "r", "e", "d", " ", "n", "o", "t", "e", "d">>

REM_EXPIRED_FAKE ==
    <<"E", "X", "P", "I", "R", "E", "D", " ", "f", "a", "k", "e">>

REM_WITH_COMMA ==
    <<"f", "a", "k", "e", ",", " ", "e", "x", "p", "i", "r", "e", "d">>

REM_FAKE_COVERED ==
    <<"F", "a", "k", "e", " ", "c", "o", "v", "e", "r", "e", "d">>

REM_EXPIRED_COVERED ==
    <<"c", "o", "v", "e", "r", "e", "d", " ", "e", "x", "p", "i", "r", "e", "d">>

REM_FAKE ==
    <<"F", "a", "k", "e", "_", "d", "o", "c", "u", "m", "e", "n", "t">>

REM_COVERED ==
    <<"N", "o", "t", "_", "C", "o", "v", "e", "r", "e", "d", " ", "f", "o", "u", "n", "d">>

REM_WEIRD ==
    <<"w", "e", "i", "r", "d", " ", "t", "e", "x", "t">>

NOTE ==
    <<"N", "O", "T", "E">>

NOTE_TEXT ==
    <<"n", "1">>

\* ----------------------------------------------------------------- inputs
\* A data line is its field texts joined by commas.  A remark that itself
\* holds a comma makes a line split into nine fields.
ParseRows ==
    { <<ID_C1, DATE_OK, CUST_U1, AMT_1, AMT_2, AMT_1, PUNE, EMPTY>>,
      <<EMPTY, DATE_OK, CUST_U1, AMT_1, AMT_2, AMT_1, PUNE, EMPTY>>,
      <<ID_PADDED, DATE_OK, SPACE, AMT_1, AMT_2, AMT_1, PUNE, REM_WEIRD>>,
      <<ID_C1, DATE_OK, CUST_U1, AMT_1, AMT_2, PUNE, EMPTY>>,
      <<ID_C1, DATE_OK, CUST_U1, AMT_1, AMT_2, AMT_1, PUNE, REM_WITH_COMMA>>,
      <<ID_C1, DATE_SHORT, CUST_U1, AMT_1, AMT_2, AMT_1, PUNE, EMPTY>>,
      <<ID_C1, DATE_OLD, CUST_U1, AMT_1, AMT_2, AMT_1, PUNE, EMPTY>>,
      <<ID_PADDED, DATE_FEB30, CUST_U1, AMT_1, AMT_2, AMT_1, PUNE, EMPTY>>,
      <<ID_C1, DATE_MONTH13, CUST_U1, AMT_PADDED, AMT_2, AMT_HALF, PUNE, EMPTY>>,
      <<ID_C1, DATE_SLASH, CUST_U1, AMT_TEXT, EMPTY, SPACE, PUNE, EMPTY>>,
      <<ID_C1, EMPTY, CUST_U1, AMT_NAN, AMT_2, AMT_1, PUNE, EMPTY>>,
      <<ID_C1, SPACE, CUST_U1, AMT_1, AMT_2, AMT_INF, PUNE, EMPTY>>,
      <<SPACE, DATE_SLASH, EMPTY, AMT_TEXT, EMPTY, AMT_TEXT, EMPTY, EMPTY>> }

PipelineRows ==
    { <<ID_C1, DATE_OK, CUST_U1, AMT_2, AMT_2, AMT_1, PUNE, EMPTY>>,
      <<ID_C1, DATE_OK, CUST_U1, AMT_1, AMT_1, AMT_0, CITY_LOWER_PUNE, REM_EXPIRED>>,
      <<ID_C1, DATE_OK, CUST_U1, AMT_1, AMT_1, AMT_1, KOLKATA, EMPTY>>,
      <<ID_C1, DATE_OK, CUST_U1, AMT_1, AMT_1, AMT_1, RANCHI, EMPTY>>,
      <<ID_C1, DATE_OK, CUST_U1, AMT_1, EMPTY, AMT_1, RANCHI, REM_WEIRD>>,
      <<ID_C1, DATE_OK, CUST_U1, AMT_2, AMT_HALF, AMT_1, GUWAHATI, REM_FAKE>>,
      <<ID_C1, DATE_OK, CUST_U1, AMT_1, AMT_1, AMT_2, CITY_DELHI, REM_COVERED>>,
      <<ID_C1, DATE_OK, CUST_U1, AMT_1, AMT_1, AMT_2, SPACE, EMPTY>>,
      <<EMPTY, DATE_OK, CUST_U1, AMT_1, AMT_1, AMT_2, PUNE, REM_EXPIRED>>,
      <<ID_C1, DATE_OK, CUST_U1, AMT_1, AMT_1, AMT_2, KOLKATA>>,
      <<ID_C1, DATE_OK, CUST_U1, AMT_1, AMT_1, AMT_NAN, PUNE, EMPTY>>,
      <<ID_C1, DATE_OK, CUST_U1, AMT_1, AMT_INF, AMT_1, KOLKATA, EMPTY>> }

ClassifyRows ==
    { <<ID_C1, DATE_OK, CUST_U1, AMT_1, AMT_1, AMT_1, PUNE, r>> :
        r \in {EMPTY, SPACE, REM_EXPIRED, REM_EXPIRED_FAKE, REM_FAKE_COVERED,
               REM_EXPIRED_COVERED, REM_FAKE, REM_COVERED, REM_WEIRD} }
    \cup { <<ID_C1, DATE_OK, SPACE, AMT_1, AMT_1, AMT_1, PUNE, REM_EXPIRED>> }

\* The mandatory header, and the same header followed by a column the
\* parser does not know.
ParseHeaders == {HEADER, HEADER \o <<NOTE>>}

\* All sequences over S of length at most n.
SeqsUpTo(S, n) == UNION {[1..m -> S] : m \in 0..n}

\* The list of lines preprocess_insurance_data works on: the header line
\* followed by the data lines.
LinesOf(header, rows) ==
    <<Join(header, ",")>> \o [k \in 1..Len(rows) |-> Join(rows[k], ",")]

\* ------------------------------------------------------------------ state
VARIABLES
    lines,           \* csv_data as a list of lines (header first)
    pc,              \* where main() is
    i,               \* index of the running loop
    cleaned_data,    \* main: cleaned_data / cleaned_data_with_class
    admitted,        \* for each record of cleaned_data, the line it came from
    data,            \* analyze_city_performance: data
    city_metrics,    \* analyze_city_performance: city_metrics
    scores,          \* analyze_city_performance: scores
    recommendation   \* analyze_city_performance: recommended_city

vars == <<lines, pc, i, cleaned_data, admitted, data, city_metrics, scores, recommendation>>

\* main() before its first call; nothing of analyze_city_performance
\* exists yet.
InitWith(headers, rows) ==
    /\ lines \in {LinesOf(h, r) : h \in headers, r \in SeqsUpTo(rows, MaxLines)}
    /\ pc = "preprocess"
    /\ i = 2
    /\ cleaned_data = <<>>
    /\ admitted = <<>>
    /\ data = <<>>
    /\ city_metrics = <<>>
    /\ scores = <<>>
    /\ recommendation = None

Init == InitWith({HEADER}, PipelineRows)

InitParse == InitWith(ParseHeaders, ParseRows)

InitClassify == InitWith({HEADER}, ClassifyRows)

\* ---------------------------------------------------------------- actions
\* main: cleaned_data = preprocess_insurance_data(csv_data), one line of
\* `for line in lines[1:]` per step.
PreprocessLine ==
    /\ pc = "preprocess"
    /\ i <= Len(lines)
    /\ IF Appends(HeadersOf(lines), lines[i])
       THEN /\ cleaned_data' = Append(cleaned_data, CleanRow(HeadersOf(lines), RowOf(lines[i])))
            /\ admitted' = Append(admitted, i)
       ELSE UNCHANGED <<cleaned_data, admitted>>
    /\ i' = i + 1
    /\ UNCHANGED <<lines, pc, data, city_metrics, scores, recommendation>>

PreprocessReturn ==
    /\ pc = "preprocess"
    /\ i > Len(lines)
    /\ pc' = "classify"
    /\ i' = 1
    /\ UNCHANGED <<lines, cleaned_data, admitted, data, city_metrics, scores, recommendation>>

\* main: add_rejection_class(cleaned_data), one row per step; the rows are
\* changed in place.
ClassifyStep ==
    /\ pc = "classify"
    /\ i <= Len(cleaned_data)
    /\ cleaned_data' = [cleaned_data EXCEPT ![i] = ClassifyRow(@)]
    /\ i' = i + 1
    /\ UNCHANGED <<lines, pc, admitted, data, city_metrics, scores, recommendation>>

ClassifyReturn ==
    /\ pc = "classify"
    /\ i > Len(cleaned_data)
    /\ pc' = "analyze_preprocess"
    /\ i' = 2
    /\ UNCHANGED <<lines, cleaned_data, admitted, data, city_metrics, scores, recommendation>>

\* analyze_city_performance(csv_data): data = preprocess_insurance_data(
\* csv_file_path), a second parse of the same text.
AnalyzePreprocessLine ==
    /\ pc = "analyze_preprocess"
    /\ i <= Len(lines)
    /\ data' = IF Appends(HeadersOf(lines), lines[i])
               THEN Append(data, CleanRow(HeadersOf(lines), RowOf(lines[i])))
               ELSE data
    /\ i' = i + 1
    /\ UNCHANGED <<lines, pc, cleaned_data, admitted, city_metrics, scores, recommendation>>

\* The parse is over; city_metrics is built with a zero entry per city.
AnalyzePreprocessReturn ==
    /\ pc = "analyze_preprocess"
    /\ i > Len(lines)
    /\ city_metrics' = InitialCityMetrics
    /\ pc' = "aggregate"
    /\ i' = 1
    /\ UNCHANGED <<lines, cleaned_data, admitted, data, scores, recommendation>>

\* One iteration of `for row in data`.
AggregateStep ==
    /\ pc = "aggregate"
    /\ i <= Len(data)
    /\ city_metrics' = AggregateRow(city_metrics, data[i])
    /\ i' = i + 1
    /\ UNCHANGED <<lines, pc, cleaned_data, admitted, data, scores, recommendation>>

AggregateReturn ==
    /\ pc = "aggregate"
    /\ i > Len(data)
    /\ pc' = "finalize"
    /\ UNCHANGED <<lines, i, cleaned_data, admitted, data, city_metrics, scores, recommendation>>

\* The loop computing loss_ratio and rejection_rate.
Finalize ==
    /\ pc = "finalize"
    /\ city_metrics' = FinalizeMetrics(city_metrics)
    /\ pc' = "score"
    /\ UNCHANGED <<lines, i, cleaned_data, admitted, data, scores, recommendation>>

\* The scoring loop, the max and the return.
ScoreAndRecommend ==
    /\ pc = "score"
    /\ scores' = ScoresOf(city_metrics)
    /\ recommendation' = Str(Recommend(ScoresOf(city_metrics)))
    /\ pc' = "done"
    /\ UNCHANGED <<lines, i, cleaned_data, admitted, data, city_metrics>>

Next ==
    \/ PreprocessLine
    \/ PreprocessReturn
    \/ ClassifyStep
    \/ ClassifyReturn
    \/ AnalyzePreprocessLine
    \/ AnalyzePreprocessReturn
    \/ AggregateStep
    \/ AggregateReturn
    \/ Finalize
    \/ ScoreAndRecommend

Spec == Init /\ [][Next]_vars

SpecParse == InitParse /\ [][Next]_vars

SpecClassify == InitClassify /\ [][Next]_vars

TypeOK ==
    /\ pc \in {"preprocess", "classify", "analyze_preprocess", "aggregate",
               "finalize", "score", "done"}
    /\ i \in 1..(Len(lines) + 1)
    /\ Len(admitted) = Len(cleaned_data)

\* ------------------------------------------------------- derived notions
Range(seq) == {seq[k] : k \in 1..Len(seq)}

Headers == HeadersOf(lines)

ColumnPos(col) == CHOOSE j \in 1..Len(Headers) : Headers[j] = col

\* A data line whose field count equals the header's.
FieldCountMatches(k) == Len(RowOf(lines[k])) = Len(Headers)

\* The text of a column in data line k (for a line whose count matches).
RawField(k, col) == RowOf(lines[k])[ColumnPos(col)]

NonBlank(text) == \E j \in 1..Len(text) : text[j] \notin Whitespace

\* The data lines the first parse has gone through.
Parsed == IF pc = "preprocess" THEN 2..(i - 1) ELSE 2..Len(lines)

AfterAggregation == pc \in {"finalize", "score", "done"}

RemoveAt(seq, k) == SubSeq(seq, 1, k - 1) \o SubSeq(seq, k + 1, Len(seq))

KnownCity(v) == v.t = "str" /\ v.s \in Cities

\* -------------------------------------------------------------------- C1
\* C1: every record preprocess_insurance_data returns has a non-empty
\* CLAIM_ID and a non-empty CUSTOMER_ID, and a data line whose field count
\* equals the header's is admitted exactly when both of these fields are
\* non-blank, whatever its other fields hold.
C1_Admission ==
    /\ \A r \in Range(cleaned_data) \cup Range(data) :
          /\ r[CLAIM_ID].t = "str" /\ Len(r[CLAIM_ID].s) > 0
          /\ r[CUSTOMER_ID].t = "str" /\ Len(r[CUSTOMER_ID].s) > 0
    /\ \A k \in Parsed :
          FieldCountMatches(k) =>
             ((k \in Range(admitted)) <=>
                 (NonBlank(RawField(k, CLAIM_ID)) /\ NonBlank(RawField(k, CUSTOMER_ID))))

\* Both outcomes: a line admitted although its date is absent and a
\* monetary text is unparsable, and a well-counted line dropped for its
\* blank customer id.
C1_Witness ==
    /\ pc = "classify"
    /\ \E r \in 1..Len(cleaned_data) :
          /\ cleaned_data[r][CLAIM_DATE] = None
          /\ ~ParseFloat(RawField(admitted[r], CLAIM_AMOUNT)).ok
    /\ \E k \in 2..Len(lines) :
          /\ FieldCountMatches(k)
          /\ NonBlank(RawField(k, CLAIM_ID))
          /\ ~NonBlank(RawField(k, CUSTOMER_ID))
          /\ k \notin Range(admitted)

\* -------------------------------------------------------------------- C2
\* C2: a data line whose field count differs from the header's never
\* becomes a record, and the cleaned output is the output of the same
\* input without that line, wherever the line stands.
C2_MalformedDropped ==
    /\ \A k \in Range(admitted) : FieldCountMatches(k)
    /\ (pc = "classify" /\ i = 1) =>
          \A k \in 2..Len(lines) :
             ~FieldCountMatches(k) =>
                cleaned_data = preprocess_insurance_data(RemoveAt(lines, k))
    /\ (pc \in {"aggregate", "finalize", "score", "done"}) =>
          \A k \in 2..Len(lines) :
             ~FieldCountMatches(k) =>
                data = preprocess_insurance_data(RemoveAt(lines, k))

\* A line with too many fields stands before a line that is admitted.
C2_Witness ==
    /\ pc = "done"
    /\ \E k \in 2..Len(lines) :
          /\ Len(RowOf(lines[k])) > Len(Headers)
          /\ \E a \in Range(admitted) : k < a
    /\ Len(data) = 1

\* -------------------------------------------------------------------- C3
\* C3 as stated: every record analyze_city_performance folds into
\* CityMetrics carries a rejection_class.
C3_FoldedRecordsClassified ==
    (pc = "aggregate" /\ i <= Len(data) /\ KnownCity(data[i][CITY])) =>
        REJECTION_CLASS \in DOMAIN data[i]

\* C3 amended: add_rejection_class annotates every record of main's
\* cleaned dataset, in order, before analyze_city_performance starts; the
\* records analyze_city_performance parses and folds carry no
\* rejection_class.
C3_ClassifiedBeforeAnalysis ==
    /\ pc = "classify" =>
          \A r \in 1..Len(cleaned_data) :
             (REJECTION_CLASS \in DOMAIN cleaned_data[r]) <=> (r < i)
    /\ pc \notin {"preprocess", "classify"} =>
          \A r \in 1..Len(cleaned_data) : REJECTION_CLASS \in DOMAIN cleaned_data[r]
    /\ \A r \in 1..Len(data) : REJECTION_CLASS \notin DOMAIN data[r]

\* The aggregator is about to fold a record of a known city, and main's
\* dataset holds classified records with and without a remark.
C3_Witness ==
    /\ pc = "aggregate"
    /\ i <= Len(data)
    /\ KnownCity(data[i][CITY])
    /\ \E r \in 1..Len(cleaned_data) : cleaned_data[r][REJECTION_CLASS] = Class(NoRemark)
    /\ \E r \in 1..Len(cleaned_data) : cleaned_data[r][REJECTION_CLASS] # Class(NoRemark)

\* -------------------------------------------------------------------- C4
FLe(x, y) == FGt(y, x) \/ FEq(x, y)

\* A city whose score is a number no other city's score exceeds (scores
\* that are nan are left out of the maximum).
AttainsMax(city) ==
    /\ scores[city].k # "nan"
    /\ \A other \in Cities : scores[other].k # "nan" => FLe(scores[other], scores[city])

\* C4: the recommended city is the first city, in the order PUNE, KOLKATA,
\* RANCHI, GUWAHATI, whose score equals the maximum score.
C4_FirstMaximal ==
    pc = "done" =>
        \E k \in 1..Len(CityOrder) :
            /\ recommendation = Str(CityOrder[k])
            /\ AttainsMax(CityOrder[k])
            /\ \A j \in 1..(k - 1) : ~AttainsMax(CityOrder[j])

\* -------------------------------------------------------------------- C5
\* C5: on the lower-cased remark the keyword groups apply in the order
\* expired, fake, covered and the first match wins; no match gives Other;
\* an empty remark gives NoRemark.
C5_Precedence ==
    \A r \in 1..Len(cleaned_data) :
        REJECTION_CLASS \in DOMAIN cleaned_data[r] =>
            LET remark  == cleaned_data[r][REJECTION_REMARKS].s
                low     == Lower(remark)
                class   == cleaned_data[r][REJECTION_CLASS].c
                expired == Contains(low, KW_EXPIRED)
                fake    == Contains(low, KW_FAKE)
                covered == Contains(low, KW_COVERED)
            IN  /\ remark = <<>> => class = NoRemark
                /\ (remark # <<>> /\ expired) => class = PolicyExpired
                /\ (remark # <<>> /\ ~expired /\ fake) => class = FakeDocument
                /\ (remark # <<>> /\ ~expired /\ ~fake /\ covered) => class = NotCovered
                /\ (remark # <<>> /\ ~expired /\ ~fake /\ ~covered) => class = Other

\* A remark holding both "expired" and "fake" was classified, and so was
\* an empty remark.
C5_Witness ==
    /\ pc = "analyze_preprocess"
    /\ \E r \in 1..Len(cleaned_data) :
          /\ Contains(Lower(cleaned_data[r][REJECTION_REMARKS].s), KW_EXPIRED)
          /\ Contains(Lower(cleaned_data[r][REJECTION_REMARKS].s), KW_FAKE)
          /\ cleaned_data[r][REJECTION_CLASS] = Class(PolicyExpired)
    /\ \E r \in 1..Len(cleaned_data) : cleaned_data[r][REJECTION_CLASS] = Class(NoRemark)

\* -------------------------------------------------------------------- C6
\* The admitted lines whose trimmed, upper-cased CITY text is the city.
LinesNaming(city) ==
    {k \in Range(admitted) : Upper(Strip(RawField(k, CITY))) = city}

RECURSIVE SumClaimCount(_, _)
SumClaimCount(metrics, k) ==
    IF k > Len(CityOrder) THEN 0
    ELSE metrics[CityOrder[k]].claim_count + SumClaimCount(metrics, k + 1)

\* C6: after the aggregation the claim_count of the four cities sum to the
\* number of admitted records whose normalized city is one of the four,
\* each counted once in the city it names.
C6_ClaimCountSum ==
    AfterAggregation =>
        /\ \A city \in Cities :
              city_metrics[city].claim_count = Cardinality(LinesNaming(city))
        /\ SumClaimCount(city_metrics, 1)
              = Cardinality({k \in Range(admitted) :
                               Upper(Strip(RawField(k, CITY))) \in Cities})

\* A city written in lower case with padding was counted, next to an
\* admitted record of no known city.
C6_Witness ==
    /\ pc = "done"
    /\ \E k \in Range(admitted) :
          /\ RawField(k, CITY) # PUNE
          /\ Upper(Strip(RawField(k, CITY))) = PUNE
    /\ \E k \in Range(admitted) : Upper(Strip(RawField(k, CITY))) \notin Cities
    /\ city_metrics[PUNE].claim_count = 1

\* -------------------------------------------------------------------- C7
\* C7: aggregating an admitted record whose city is absent or not one of
\* the four leaves every CityMetrics unchanged, keeps the record in the
\* cleaned dataset and creates no entry for another city.
C7_UnknownCityFrame ==
    [][(pc = "aggregate" /\ i <= Len(data) /\ ~KnownCity(data[i][CITY]))
          => (/\ city_metrics' = city_metrics
              /\ DOMAIN city_metrics' = Cities
              /\ data' = data
              /\ i' = i + 1)]_vars

\* Records of an absent city and of an unlisted city have been aggregated.
C7_Witness ==
    /\ pc = "aggregate"
    /\ i = 3
    /\ \E r \in 1..2 : data[r][CITY] = None
    /\ \E r \in 1..2 : data[r][CITY] = Str(CITY_DELHI)
    /\ city_metrics = InitialCityMetrics

\* -------------------------------------------------------------------- C8
\* Four digits, two digits, two digits, separated by '-'.
IsoForm(text) ==
    /\ Len(text) = 10
    /\ text[5] = "-"
    /\ text[8] = "-"
    /\ \A j \in {1, 2, 3, 4, 6, 7, 9, 10} : IsDigit(text[j])

\* C8: the claim_date of a cleaned record is absent or a YYYY-MM-DD text
\* with month in 1..12, day in 1..31 and year >= 2025.
C8_DateForm ==
    \A r \in Range(cleaned_data) :
        \/ r[CLAIM_DATE] = None
        \/ /\ r[CLAIM_DATE].t = "str"
           /\ IsoForm(r[CLAIM_DATE].s)
           /\ DigitRunVal(SubSeq(r[CLAIM_DATE].s, 1, 4)) >= 2025
           /\ DigitRunVal(SubSeq(r[CLAIM_DATE].s, 6, 7)) \in 1..12
           /\ DigitRunVal(SubSeq(r[CLAIM_DATE].s, 9, 10)) \in 1..31

\* -------------------------------------------------------------------- C9
\* Text that denotes a number: a signed decimal numeral or an infinity.
DenotesNumber(text) ==
    LET body == Unsigned(Strip(text))
    IN  \/ Lower(body) \in {INF_NAME, INFINITY_NAME}
        \/ /\ \E j \in 1..Len(body) : IsDigit(body[j])
           /\ \A j \in 1..Len(body) : IsDigit(body[j]) \/ body[j] \in {".", "_"}

\* C9: a monetary text that is blank or is not a number yields exactly
\* 0.0; only text that denotes a number yields another value.
C9_MonetaryDefault ==
    \A r \in 1..Len(cleaned_data) :
        \A col \in MonetaryColumns :
            ~DenotesNumber(RawField(admitted[r], col)) => cleaned_data[r][col] = Zero

\* ------------------------------------------------------------------- C10
\* C10: during and after the aggregation pass every city has
\* 0 <= rejected_count <= claim_count, so its finalized rejection_rate
\* lies in [0, 1] and is exactly 0.0 when claim_count is 0.
C10_RejectedWithinCount ==
    /\ pc \in {"aggregate", "finalize", "score", "done"} =>
          \A city \in Cities :
             /\ 0 <= city_metrics[city].rejected_count
             /\ city_metrics[city].rejected_count <= city_metrics[city].claim_count
    /\ pc \in {"score", "done"} =>
          \A city \in Cities :
             LET rate == city_metrics[city].rejection_rate
             IN  /\ rate.k = "fin"
                 /\ ~FGt(Zero, rate)
                 /\ ~FGt(rate, FromInt(1))
                 /\ city_metrics[city].claim_count = 0 => rate = Zero

\* A city with one rejected claim out of two, next to a city with none.
C10_Witness ==
    /\ pc = "done"
    /\ \E city \in Cities :
          /\ city_metrics[city].claim_count = 2
          /\ city_metrics[city].rejected_count = 1
          /\ city_metrics[city].rejection_rate = Fin(1, 2)
    /\ \E city \in Cities : city_metrics[city].claim_count = 0

====
